---- MODULE Spec2Model ----
(***************************************************************************)
(* A model of raster_loader/io.py: the record codec (array_to_record,      *)
(* record_to_array), the corner reprojection (reproject_record), the lazy  *)
(* record source (rasterio_windows_to_records) and the chunked upload      *)
(* driver (rasterio_to_bigquery, records_to_bigquery).                     *)
(*                                                                         *)
(* Conventions.  A Python str that the code splits or joins is a sequence  *)
(* of one-character strings; a bytes object is a sequence of 0..255; a     *)
(* 2-D numpy array is a dtype name and a sequence of rows; a dict with a   *)
(* fixed key set is a record.  Coordinates are integers: the model keeps   *)
(* the arithmetic of the affine transform and leaves out floating-point    *)
(* rounding.                                                               *)
(***************************************************************************)
EXTENDS Integers, Sequences, FiniteSets, TLC

(***************************************************************************)
(* Bounds of the model.                                                    *)
(***************************************************************************)
MaxH == 2
MaxW == 3
MaxOff == 1
MaxBytes == 8
MaxBlocks == 3
MaxChunk == 3

(***************************************************************************)
(* Python strings.                                                         *)
(***************************************************************************)
Underscore == <<"_">>

S_uint8 == <<"u", "i", "n", "t", "8">>
S_int16 == <<"i", "n", "t", "1", "6">>
S_foo == <<"f", "o", "o">>
S_band_1 == <<"b", "a", "n", "d", "_", "1">>
S_ndvi == <<"n", "d", "v", "i">>

\* sep.join(parts)
RECURSIVE StrJoin(_, _)
StrJoin(sep, parts) ==
    IF Len(parts) = 0 THEN <<>>
    ELSE IF Len(parts) = 1 THEN parts[1]
    ELSE parts[1] \o sep \o StrJoin(sep, Tail(parts))

\* s.split(sep)[-1] for a one-character sep: what follows the last sep of s,
\* all of s when it holds none.
SplitLast(s, sep) ==
    LET hits == {i \in 1..Len(s) : s[i] = sep[1]}
        from == IF hits = {} THEN 1
                ELSE (CHOOSE i \in hits : \A j \in hits : j <= i) + 1
    IN  SubSeq(s, from, Len(s))

(***************************************************************************)
(* numpy: dtypes, tobytes, frombuffer, reshape.                            *)
(***************************************************************************)
DtypeNames == {S_uint8, S_int16}

\* np.dtype(name).itemsize and signedness of the modelled fixed-width types
ItemSize(name) == IF name = S_uint8 THEN 1 ELSE 2
IsSigned(name) == name = S_int16

Pow256(n) == IF n = 0 THEN 1 ELSE IF n = 1 THEN 256 ELSE 65536

\* one element in native (little-endian) byte order, two's complement
ElemToBytes(v, name) ==
    LET size == ItemSize(name)
        u == IF v < 0 THEN v + Pow256(size) ELSE v
    IN  [i \in 1..size |-> (u \div Pow256(i - 1)) % 256]

ElemFromBytes(bs, name) ==
    LET size == ItemSize(name)
        u == IF size = 1 THEN bs[1] ELSE bs[1] + 256 * bs[2]
    IN  IF IsSigned(name) /\ u >= Pow256(size) \div 2 THEN u - Pow256(size) ELSE u

ArrShape(arr) == <<Len(arr.rows), Len(arr.rows[1])>>

\* arr.tobytes(): C (row-major) order
ToBytesColumnMajor(arr) ==
    LET h == Len(arr.rows)
        w == Len(arr.rows[1])
        size == ItemSize(arr.dtype)
    IN  [k \in 1..(h * w * size) |->
            LET e == (k - 1) \div size
            IN  ElemToBytes(arr.rows[(e % h) + 1][(e \div h) + 1], arr.dtype)
                    [((k - 1) % size) + 1]]

ToBytes(arr) ==
    LET h == Len(arr.rows)
        w == Len(arr.rows[1])
        size == ItemSize(arr.dtype)
    IN  [k \in 1..(h * w * size) |->
            LET e == (k - 1) \div size
            IN  ElemToBytes(arr.rows[(e \div w) + 1][(e % w) + 1], arr.dtype)
                    [((k - 1) % size) + 1]]

Ok(a) == [kind |-> "ok", arr |-> a]
Raise(k) == [kind |-> k, arr |-> <<>>]

\* np.frombuffer(buf, dtype): a flat array, ValueError when the buffer size is
\* no multiple of the element size
FromBufferTruncating(buf, name) ==
    LET size == ItemSize(name)
    IN  Ok([i \in 1..(Len(buf) \div size) |->
                 ElemFromBytes(SubSeq(buf, (i - 1) * size + 1, i * size), name)])

FromBuffer(buf, name) ==
    LET size == ItemSize(name)
    IN  IF Len(buf) % size # 0 THEN Raise("ValueError")
        ELSE Ok([i \in 1..(Len(buf) \div size) |->
                 ElemFromBytes(SubSeq(buf, (i - 1) * size + 1, i * size), name)])

\* flat.reshape((h, w)): ValueError when the sizes differ
Reshape(flat, name, h, w) ==
    IF Len(flat) # h * w THEN Raise("ValueError")
    ELSE Ok([dtype |-> name,
             rows |-> [i \in 1..h |-> [j \in 1..w |-> flat[(i - 1) * w + j]]]])

(***************************************************************************)
(* json.dumps / json.loads of the attrs dict: the document is the sequence *)
(* of its members in insertion order, loads rebuilds the mapping.          *)
(***************************************************************************)
AttrsKeys == <<"band", "value_field", "dtype", "crs", "gdal_transform",
               "row_off", "col_off">>

JsonDumps(d) == [i \in 1..Len(AttrsKeys) |-> <<AttrsKeys[i], d[AttrsKeys[i]]>>]

JsonLoads(doc) ==
    [k \in {doc[i][1] : i \in 1..Len(doc)} |->
        doc[CHOOSE i \in 1..Len(doc) : doc[i][1] = k][2]]

(***************************************************************************)
(* affine.Affine                                                           *)
(***************************************************************************)
\* Affine * (x, y)
AffineMul(t, x, y) == <<t.a * x + t.b * y + t.c, t.d * x + t.e * y + t.f>>

\* Affine.to_gdal()
ToGdal(t) == <<t.c, t.a, t.b, t.f, t.d, t.e>>

Identity == [a |-> 1, b |-> 0, c |-> 0, d |-> 0, e |-> 1, f |-> 0]
NorthUp == [a |-> 2, b |-> 0, c |-> 10, d |-> 0, e |-> -2, f |-> 40]
Rotated == [a |-> 0, b |-> 3, c |-> 5, d |-> 1, e |-> 0, f |-> -7]
Transforms == {Identity, NorthUp, Rotated}

(***************************************************************************)
(* Coordinate reference systems.  str.upper() and CRS.from_string() on the *)
(* identifiers the model uses; pyproj's transform is an external engine,   *)
(* modelled as the identity between equal systems and as a fixed           *)
(* non-trivial map otherwise.                                              *)
(***************************************************************************)
Upper(s) == IF s = "epsg:4326" THEN "EPSG:4326" ELSE s

CRSFromString(s) == Upper(s)

TransformerTransform(src, dst, x, y) ==
    IF src = dst THEN <<x, y>> ELSE <<3 * x + 1, 3 * y + 2>>

(***************************************************************************)
(* array_to_record                                                         *)
(***************************************************************************)
CornerFields == {"lat_NW", "lon_NW", "lat_NE", "lon_NE",
                 "lat_SE", "lon_SE", "lat_SW", "lon_SW"}

\* the four corners of the block, in pixel space then through the transform
CornersTransposed(t, row_off, col_off, height, width) ==
    LET nw == AffineMul(t, col_off, row_off)
        ne == AffineMul(t, col_off + height, row_off)
        se == AffineMul(t, col_off + height, row_off + width)
        sw == AffineMul(t, col_off, row_off + width)
    IN  [lon_NW |-> nw[1], lat_NW |-> nw[2], lon_NE |-> ne[1], lat_NE |-> ne[2],
         lon_SE |-> se[1], lat_SE |-> se[2], lon_SW |-> sw[1], lat_SW |-> sw[2]]

Corners(t, row_off, col_off, height, width) ==
    LET nw == AffineMul(t, col_off, row_off)
        ne == AffineMul(t, col_off + width, row_off)
        se == AffineMul(t, col_off + width, row_off + height)
        sw == AffineMul(t, col_off, row_off + height)
    IN  [lon_NW |-> nw[1], lat_NW |-> nw[2], lon_NE |-> ne[1], lat_NE |-> ne[2],
         lon_SE |-> se[1], lat_SE |-> se[2], lon_SW |-> sw[1], lat_SW |-> sw[2]]

\* value_field = "_".join([value_field, dtype_str])
DynamicKeyDtypeFirst(value_field, dtype_str) ==
    StrJoin(Underscore, <<dtype_str, value_field>>)

DynamicKey(value_field, dtype_str) ==
    StrJoin(Underscore, <<value_field, dtype_str>>)

\* The record is a dict with eleven fixed keys and one computed key; the
\* computed entry is the one-entry mapping `dynamic`.
ArrayToRecord(arr, geotransform, row_off, col_off, value_field, crs, band) ==
    LET height == ArrShape(arr)[1]
        width == ArrShape(arr)[2]
        c == Corners(geotransform, row_off, col_off, height, width)
        dtype_str == arr.dtype
        vf == DynamicKey(value_field, dtype_str)
        attrs == [band |-> band, value_field |-> vf, dtype |-> dtype_str,
                  crs |-> crs, gdal_transform |-> ToGdal(geotransform),
                  row_off |-> row_off, col_off |-> col_off]
    IN  [lat_NW |-> c.lat_NW, lon_NW |-> c.lon_NW,
         lat_NE |-> c.lat_NE, lon_NE |-> c.lon_NE,
         lat_SE |-> c.lat_SE, lon_SE |-> c.lon_SE,
         lat_SW |-> c.lat_SW, lon_SW |-> c.lon_SW,
         block_height |-> height, block_width |-> width,
         attrs |-> JsonDumps(attrs),
         dynamic |-> (vf :> ToBytes(arr))]

(***************************************************************************)
(* record_to_array.  value_field is [some |-> FALSE] for None.             *)
(***************************************************************************)
None == [some |-> FALSE]
Some(v) == [some |-> TRUE, val |-> v]

RecordToArray(record, value_field) ==
    LET vf == IF value_field.some THEN value_field.val
              ELSE JsonLoads(record.attrs)["value_field"]
        dtype_str == SplitLast(vf, Underscore)
    IN  IF dtype_str \notin DtypeNames THEN Raise("TypeError")
        ELSE IF vf \notin DOMAIN record.dynamic THEN Raise("KeyError")
        ELSE LET flat == FromBuffer(record.dynamic[vf], dtype_str)
             IN  IF flat.kind # "ok" THEN flat
                 ELSE Reshape(flat.arr, dtype_str,
                              record.block_height, record.block_width)

(***************************************************************************)
(* reproject_record: the loop over the corner columns, one pair a turn.    *)
(***************************************************************************)
CornerPairsNWTwice == << <<"lon_NW", "lat_NW">>, <<"lon_NE", "lat_NE">>,
                         <<"lon_NW", "lat_NW">>, <<"lon_SE", "lat_SE">> >>

CornerPairs == << <<"lon_NW", "lat_NW">>, <<"lon_NE", "lat_NE">>,
                  <<"lon_SW", "lat_SW">>, <<"lon_SE", "lat_SE">> >>

ReprojectCorner(record, pair, src_crs, dst_crs) ==
    LET xy == TransformerTransform(CRSFromString(src_crs), CRSFromString(dst_crs),
                                   record[pair[1]], record[pair[2]])
    IN  [record EXCEPT ![pair[1]] = xy[1], ![pair[2]] = xy[2]]

RECURSIVE ReprojectFrom(_, _, _, _)
ReprojectFrom(record, i, src_crs, dst_crs) ==
    IF i > Len(CornerPairs) THEN record
    ELSE ReprojectFrom(ReprojectCorner(record, CornerPairs[i], src_crs, dst_crs),
                       i + 1, src_crs, dst_crs)

ReprojectRecord(record, src_crs, dst_crs) == ReprojectFrom(record, 1, src_crs, dst_crs)

(***************************************************************************)
(* State.                                                                  *)
(*   codec run:   cpc, cin, heap, rec, before, rsrc, ridx, ncalls, ret, dec*)
(*   decode run:  dpc, drec, dvf, dout                                     *)
(*   load run:    pc, chunk_size, input_crs, raster, gen, handle, widx,    *)
(*                gcrs, warned, records, yielded, calls, jobs, pbar,       *)
(*                total_blocks, result                                     *)
(***************************************************************************)
VARIABLES
    cpc,      \* position of the codec run
    cin,      \* arguments of array_to_record
    heap,     \* the record objects, by identity (index)
    rec,      \* the object array_to_record returned, 0 before it ran
    before,   \* the fields of heap[rec] when reproject_record was entered
    rsrc,     \* src_crs of the running reproject_record
    ridx,     \* loop position of reproject_record in CornerPairs
    ncalls,   \* transformer.transform calls so far, per lon column
    ret,      \* the object reproject_record returned, 0 before it returned
    dec,      \* result of record_to_array
    dpc,      \* position of the decode run
    drec,     \* argument record of record_to_array
    dvf,      \* argument value_field of record_to_array
    dout,     \* its result
    pc,           \* position of rasterio_to_bigquery
    chunk_size,   \* its argument chunk_size (None or an int)
    input_crs,    \* its argument input_crs (None, an int or a str)
    raster,       \* the file: its embedded CRS and its number of block windows
    gen,          \* the generator records_gen
    handle,       \* the dataset handle of the generator's `with`
    widx,         \* block windows the generator has yielded
    gcrs,         \* the generator's local input_crs once resolved
    warned,       \* the CRS warning was printed
    records,      \* the buffer `records` (the frame's rows when chunk_size is None)
    yielded,      \* every record the generator has yielded, in order
    calls,        \* the batches handed to load_table_from_dataframe, in order
    jobs,         \* the load jobs the client returned, by call
    pbar,         \* the progress bar's count
    total_blocks, \* the progress bar's total
    result        \* how rasterio_to_bigquery ended

cvars == <<cpc, cin, heap, rec, before, rsrc, ridx, ncalls, ret, dec>>
dvars == <<dpc, drec, dvf, dout>>
pvars == <<pc, chunk_size, input_crs, raster, gen, handle, widx, gcrs, warned,
           records, yielded, calls, jobs, pbar, total_blocks, result>>

NoRecord == [unset |-> TRUE]
NoResult == Raise("none")
NoCalls == [k \in {"lon_NW", "lon_NE", "lon_SW", "lon_SE"} |-> 0]

CodecIdle ==
    /\ cpc = "off" /\ cin = NoRecord /\ heap = <<>> /\ rec = 0
    /\ before = NoRecord /\ rsrc = "" /\ ridx = 0 /\ ncalls = NoCalls
    /\ ret = 0 /\ dec = NoResult

DecodeIdle == dpc = "off" /\ drec = NoRecord /\ dvf = None /\ dout = NoResult

LoadIdle ==
    /\ pc = "off" /\ chunk_size = None /\ input_crs = None /\ raster = NoRecord
    /\ gen = "off" /\ handle = "unopened" /\ widx = 0 /\ gcrs = "" /\ warned = FALSE
    /\ records = <<>> /\ yielded = <<>> /\ calls = <<>> /\ jobs = <<>> /\ pbar = 0
    /\ total_blocks = 0 /\ result = "off"

(***************************************************************************)
(* Input blocks: every shape up to MaxH x MaxW, both dtypes, cell values   *)
(* cycling through a palette with stride `seed` (seed 0: a constant block  *)
(* of zeros).                                                              *)
(***************************************************************************)
Palette(name) == IF name = S_uint8 THEN <<0, 255, 7>> ELSE <<0, -2, 256>>

Block(name, h, w, seed) ==
    [dtype |-> name,
     rows |-> [i \in 1..h |-> [j \in 1..w |->
                  Palette(name)[((((i - 1) * w + (j - 1)) * seed) % 3) + 1]]]]

Blocks == {Block(n, h, w, seed) : n \in DtypeNames, h \in 1..MaxH,
                                  w \in 1..MaxW, seed \in 0..2}

FieldNames == {S_band_1, S_ndvi}

(***************************************************************************)
(* The codec run: array_to_record, then optionally reproject_record, then  *)
(* record_to_array without an explicit field name.                         *)
(***************************************************************************)
InitCodec ==
    /\ cpc = "input"
    /\ cin \in [arr : Blocks, geotransform : Transforms, row_off : 0..MaxOff,
                col_off : 0..MaxOff, value_field : FieldNames,
                crs : {"EPSG:4326", "EPSG:3857"}, band : {1}]
    /\ heap = <<>> /\ rec = 0 /\ before = NoRecord /\ rsrc = "" /\ ridx = 0
    /\ ncalls = NoCalls /\ ret = 0 /\ dec = NoResult
    /\ DecodeIdle
    /\ LoadIdle

Encode ==
    /\ cpc = "input"
    /\ heap' = Append(heap, ArrayToRecord(cin.arr, cin.geotransform, cin.row_off,
                                          cin.col_off, cin.value_field, cin.crs,
                                          cin.band))
    /\ rec' = Len(heap) + 1
    /\ cpc' = "encoded"
    /\ UNCHANGED <<cin, before, rsrc, ridx, ncalls, ret, dec>>
    /\ UNCHANGED <<dvars, pvars>>

ReprojectEnter ==
    /\ cpc = "encoded"
    /\ rsrc' = cin.crs
    /\ before' = heap[rec]
    /\ ridx' = 1
    /\ cpc' = "reprojecting"
    /\ UNCHANGED <<cin, heap, rec, ncalls, ret, dec>>
    /\ UNCHANGED <<dvars, pvars>>

ReprojectLoop ==
    /\ cpc = "reprojecting"
    /\ ridx <= Len(CornerPairs)
    /\ heap' = [heap EXCEPT ![rec] =
                   ReprojectCorner(@, CornerPairs[ridx], rsrc, "EPSG:4326")]
    /\ ncalls' = [ncalls EXCEPT ![CornerPairs[ridx][1]] = @ + 1]
    /\ ridx' = ridx + 1
    /\ UNCHANGED <<cpc, cin, rec, before, rsrc, ret, dec>>
    /\ UNCHANGED <<dvars, pvars>>

ReprojectReturn ==
    /\ cpc = "reprojecting"
    /\ ridx > Len(CornerPairs)
    /\ ret' = rec
    /\ cpc' = "reprojected"
    /\ UNCHANGED <<cin, heap, rec, before, rsrc, ridx, ncalls, dec>>
    /\ UNCHANGED <<dvars, pvars>>

Decode ==
    /\ cpc \in {"encoded", "reprojected"}
    /\ dec' = RecordToArray(heap[rec], None)
    /\ cpc' = "decoded"
    /\ UNCHANGED <<cin, heap, rec, before, rsrc, ridx, ncalls, ret>>
    /\ UNCHANGED <<dvars, pvars>>

NextCodec ==
    \/ Encode
    \/ ReprojectEnter
    \/ ReprojectLoop
    \/ ReprojectReturn
    \/ Decode

vars == <<cvars, dvars, pvars>>

SpecCodec == InitCodec /\ [][NextCodec]_vars

(***************************************************************************)
(* The decode run: record_to_array on hand-built records, with and without *)
(* an explicit field name.                                                 *)
(***************************************************************************)
RECURSIVE BytesUpTo(_)
BytesUpTo(n) ==
    IF n = 0 THEN {<<>>}
    ELSE BytesUpTo(n - 1) \cup
         {Append(b, x) : b \in {c \in BytesUpTo(n - 1) : Len(c) = n - 1},
                         x \in {0, 255}}

StoredNames == {DynamicKey(S_band_1, S_uint8), DynamicKey(S_band_1, S_int16),
                DynamicKey(S_band_1, S_foo)}

HandBuilt(name, h, w, payload) ==
    [ArrayToRecord(Block(S_uint8, 1, 1, 0), Identity, 0, 0, S_band_1,
                   "EPSG:4326", 1)
        EXCEPT !.block_height = h, !.block_width = w,
               !.attrs = JsonDumps([band |-> 1, value_field |-> name,
                                    dtype |-> SplitLast(name, Underscore),
                                    crs |-> "EPSG:4326",
                                    gdal_transform |-> ToGdal(Identity),
                                    row_off |-> 0, col_off |-> 0]),
               !.dynamic = (name :> payload)]

InitDecode ==
    /\ dpc = "input"
    /\ \E name \in StoredNames, h \in 1..MaxH, w \in 1..MaxW,
          payload \in BytesUpTo(MaxBytes) :
           drec = HandBuilt(name, h, w, payload)
    /\ dvf \in {None} \cup {Some(n) : n \in StoredNames}
    /\ dout = NoResult
    /\ CodecIdle
    /\ LoadIdle

DecodeRecord ==
    /\ dpc = "input"
    /\ dout' = RecordToArray(drec, dvf)
    /\ dpc' = "done"
    /\ UNCHANGED <<drec, dvf>>
    /\ UNCHANGED <<cvars, pvars>>

NextDecode == DecodeRecord

SpecDecode == InitDecode /\ [][NextDecode]_vars

(***************************************************************************)
(* The load run: rasterio_to_bigquery over rasterio_windows_to_records.    *)
(***************************************************************************)
IntCRS(n) == [some |-> TRUE, epsg |-> n]
IsInt(arg) == arg.some /\ "epsg" \in DOMAIN arg

\* "EPSG:{}".format(input_crs)
FormatEPSG(n) == IF n = 4326 THEN "EPSG:4326" ELSE "EPSG:3857"

\* raster_dataset.crs is None for a file without a CRS, or a CRS object whose
\* to_string() may be empty; both are outcomes of the raster library.
NoCRSObject == [obj |-> FALSE, str |-> ""]
CRSObject(s) == [obj |-> TRUE, str |-> s]
EmbeddedCRS == {NoCRSObject, CRSObject(""), CRSObject("EPSG:4326"),
                CRSObject("EPSG:3857")}

InputCRSArgs == {None, IntCRS(4326), IntCRS(3857), Some("EPSG:4326"),
                 Some("epsg:4326"), Some("EPSG:3857")}

\* the file's block windows, left to right in one row, and their pixels
BlockW == MaxW - 1
WindowRowOff(i) == 0
WindowColOff(i) == (i - 1) * BlockW
RasterRead(i) == Block(S_uint8, 1, BlockW, i)
RasterTransform == NorthUp

\* lines 119-129: the record of window i
WindowRecord(i, crs, band) ==
    LET r == ArrayToRecord(RasterRead(i), RasterTransform, WindowRowOff(i),
                           WindowColOff(i), S_band_1, crs, band)
    IN  IF Upper(crs) # "EPSG:4326" THEN ReprojectRecord(r, crs, "EPSG:4326")
        ELSE r

\* records.append(record)
BufferPrepend(buf, record) == <<record>> \o buf

BufferAppend(buf, record) == Append(buf, record)

\* len(records) >= chunk_size
BufferFullStrict(buf, k) == Len(buf) > k

BufferFull(buf, k) == Len(buf) >= k

\* chunk_size is not None
Chunked == chunk_size.some

Init ==
    /\ pc = "start"
    /\ chunk_size \in {None} \cup {Some(k) : k \in 1..MaxChunk}
    /\ input_crs \in InputCRSArgs
    /\ raster \in [crs : EmbeddedCRS, nblocks : 0..MaxBlocks]
    /\ gen = "none" /\ handle = "unopened" /\ widx = 0 /\ gcrs = "" /\ warned = FALSE
    /\ records = <<>> /\ yielded = <<>> /\ calls = <<>> /\ jobs = <<>> /\ pbar = 0
    /\ total_blocks = 0 /\ result = "running"
    /\ CodecIdle
    /\ DecodeIdle

\* lines 239-247: normalise input_crs, create the generator (nothing of its
\* body runs yet), branch on chunk_size
Start ==
    /\ pc = "start"
    /\ input_crs' = IF IsInt(input_crs) THEN Some(FormatEPSG(input_crs.epsg))
                    ELSE input_crs
    /\ gen' = "unstarted"
    /\ pc' = IF Chunked THEN "count" ELSE "frame"
    /\ UNCHANGED <<chunk_size, raster, handle, widx, gcrs, warned, records,
                   yielded, calls, jobs, pbar, total_blocks, result>>
    /\ UNCHANGED <<cvars, dvars>>

\* lines 254, 278-283: get_number_of_blocks opens and closes its own handle
CountBlocks ==
    /\ pc = "count"
    /\ total_blocks' = raster.nblocks
    /\ pc' = "pull"
    /\ UNCHANGED <<chunk_size, input_crs, raster, gen, handle, widx, gcrs, warned,
                   records, yielded, calls, jobs, pbar, result>>
    /\ UNCHANGED <<cvars, dvars>>

Pulling == pc \in {"pull", "frame"}

\* lines 110-113: the generator's input_crs after the resolution
ResolvedCRS(arg, raster_crs) == IF ~arg.some THEN raster_crs ELSE arg.val

\* what the generator's local input_crs is when its loop runs
LoopCRS == IF gen = "unstarted" THEN ResolvedCRS(input_crs, raster.crs.str) ELSE gcrs

\* First next() on a file whose crs attribute is None: line 108 raises
\* AttributeError inside the `with`, which closes the handle on the way out.
PullNoCRSObject ==
    /\ Pulling /\ gen = "unstarted"
    /\ ~raster.crs.obj
    /\ gen' = "raised" /\ handle' = "closed"
    /\ pc' = "raised" /\ result' = "AttributeError"
    /\ UNCHANGED <<chunk_size, input_crs, raster, widx, gcrs, warned, records,
                   yielded, calls, jobs, pbar, total_blocks>>
    /\ UNCHANGED <<cvars, dvars>>

\* First next(), lines 110-116: no CRS from either side raises ValueError.
PullMissingCRS ==
    /\ Pulling /\ gen = "unstarted"
    /\ raster.crs.obj
    /\ LoopCRS = ""
    /\ gcrs' = LoopCRS
    /\ warned' = (input_crs.some /\ input_crs.val # raster.crs.str)
    /\ gen' = "raised" /\ handle' = "closed"
    /\ pc' = "raised" /\ result' = "ValueError"
    /\ UNCHANGED <<chunk_size, input_crs, raster, widx, records, yielded, calls,
                   jobs, pbar, total_blocks>>
    /\ UNCHANGED <<cvars, dvars>>

GenRuns ==
    \/ gen = "suspended"
    \/ gen = "unstarted" /\ raster.crs.obj /\ LoopCRS # ""

\* next() yields the record of the next window; the consumer appends it
\* (line 259, or the frame under construction at line 161).
PullYield ==
    /\ Pulling /\ GenRuns
    /\ widx < raster.nblocks
    /\ gcrs' = LoopCRS
    /\ warned' = IF gen = "unstarted"
                 THEN input_crs.some /\ input_crs.val # raster.crs.str
                 ELSE warned
    /\ gen' = "suspended" /\ handle' = "open"
    /\ widx' = widx + 1
    /\ LET record == WindowRecord(widx + 1, LoopCRS, 1)
       IN  /\ yielded' = Append(yielded, record)
           /\ records' = BufferAppend(records, record)
    /\ pc' = IF Chunked /\ BufferFull(records', chunk_size.val) THEN "flush" ELSE pc
    /\ UNCHANGED <<chunk_size, input_crs, raster, calls, jobs, pbar, total_blocks,
                   result>>
    /\ UNCHANGED <<cvars, dvars>>

\* next() finds no window left: the `with` ends, the handle is closed, the
\* generator is exhausted; the consumer leaves its loop (line 268, or the
\* frame is complete).
PullStop ==
    /\ Pulling /\ GenRuns
    /\ widx >= raster.nblocks
    /\ gcrs' = LoopCRS
    /\ warned' = IF gen = "unstarted"
                 THEN input_crs.some /\ input_crs.val # raster.crs.str
                 ELSE warned
    /\ gen' = "exhausted" /\ handle' = "closed"
    /\ pc' = IF ~Chunked THEN "load"
             ELSE IF Len(records) > 0 THEN "final" ELSE "return"
    /\ UNCHANGED <<chunk_size, input_crs, raster, widx, records, yielded, calls,
                   jobs, pbar, total_blocks, result>>
    /\ UNCHANGED <<cvars, dvars>>

Uploading == pc \in {"flush", "final", "load"}

\* records_to_bigquery, lines 161-163: one load_table_from_dataframe call.
\* It returns the load job it started; nothing waits for the job.  Then
\* lines 265-266 or 272.
UploadReturns ==
    /\ Uploading
    /\ calls' = Append(calls, records)
    /\ jobs' = Append(jobs, "running")
    /\ pbar' = IF pc = "flush" THEN pbar + chunk_size.val
               ELSE IF pc = "final" THEN pbar + Len(records) ELSE pbar
    /\ records' = IF pc = "flush" THEN <<>> ELSE records
    /\ pc' = IF pc = "flush" THEN "pull" ELSE "return"
    /\ UNCHANGED <<chunk_size, input_crs, raster, gen, handle, widx, gcrs, warned,
                   yielded, total_blocks, result>>
    /\ UNCHANGED <<cvars, dvars>>

\* the call raises: the exception leaves rasterio_to_bigquery
UploadRaises ==
    /\ Uploading
    /\ calls' = Append(calls, records)
    /\ pc' = "raised" /\ result' = "UploadError"
    /\ UNCHANGED <<chunk_size, input_crs, raster, gen, handle, widx, gcrs, warned,
                   records, yielded, jobs, pbar, total_blocks>>
    /\ UNCHANGED <<cvars, dvars>>

\* lines 274-275
Return ==
    /\ pc = "return"
    /\ pc' = "done" /\ result' = "True"
    /\ UNCHANGED <<chunk_size, input_crs, raster, gen, handle, widx, gcrs, warned,
                   records, yielded, calls, jobs, pbar, total_blocks>>
    /\ UNCHANGED <<cvars, dvars>>

\* the warehouse finishes a load job, well or badly
JobSettles ==
    /\ \E i \in 1..Len(jobs) :
          /\ jobs[i] = "running"
          /\ \/ jobs' = [jobs EXCEPT ![i] = "done"]
             \/ jobs' = [jobs EXCEPT ![i] = "failed"]
    /\ UNCHANGED <<pc, chunk_size, input_crs, raster, gen, handle, widx, gcrs,
                   warned, records, yielded, calls, pbar, total_blocks, result>>
    /\ UNCHANGED <<cvars, dvars>>

\* The runtime finalizes the suspended generator once nothing refers to it:
\* GeneratorExit at the yield (line 131) leaves the `with` of line 106.  The
\* code never closes the generator itself.
GeneratorFinalized ==
    /\ pc = "raised"
    /\ gen = "suspended"
    /\ gen' = "closed" /\ handle' = "closed"
    /\ UNCHANGED <<pc, chunk_size, input_crs, raster, widx, gcrs, warned, records,
                   yielded, calls, jobs, pbar, total_blocks, result>>
    /\ UNCHANGED <<cvars, dvars>>

Next ==
    \/ Start
    \/ CountBlocks
    \/ PullNoCRSObject
    \/ PullMissingCRS
    \/ PullYield
    \/ PullStop
    \/ UploadReturns
    \/ UploadRaises
    \/ Return
    \/ JobSettles
    \/ GeneratorFinalized

Spec == Init /\ [][Next]_vars

(***************************************************************************)
(* Properties of the load run (Spec).                                      *)
(***************************************************************************)
RECURSIVE Concat(_)
Concat(batches) ==
    IF Len(batches) = 0 THEN <<>> ELSE batches[1] \o Concat(Tail(batches))

\* the batches of the calls that returned
Uploaded == SubSeq(calls, 1, Len(jobs))

ChunkedBy(k) == chunk_size.some /\ chunk_size.val = k

\* C1: with chunk_size = k >= 1 and no upload raising, a finished run over N
\* records has issued ceil(N/k) upload calls, all of k records except the
\* last, which has N mod k (k when k divides N); none when N = 0; and no
\* call is ever handed an empty batch.
C1_ChunkedCalls ==
    Chunked =>
        LET k == chunk_size.val IN
            /\ \A i \in 1..Len(calls) : Len(calls[i]) >= 1
            /\ pc = "done" =>
                LET N == raster.nblocks
                    n == Len(calls)
                IN  /\ Len(yielded) = N
                    /\ n = (N + k - 1) \div k
                    /\ \A i \in 1..(n - 1) : Len(calls[i]) = k
                    /\ n > 0 => Len(calls[n]) = IF N % k = 0 THEN k ELSE N % k
                    /\ N = 0 => calls = <<>>

C1_Witness ==
    /\ pc = "done" /\ ChunkedBy(2) /\ raster.nblocks = 3
    /\ Len(calls) = 2 /\ Len(calls[1]) = 2 /\ Len(calls[2]) = 1

\* C5 (as claimed): without input_crs the embedded CRS is used; a supplied
\* input_crs is used for every record whatever the file embeds, and the
\* iteration is not aborted; the iteration fails for want of a CRS exactly
\* when neither side supplies one.
C5_EffectiveCRS ==
    LET supplied == input_crs.some
        embedded == raster.crs.obj /\ raster.crs.str # ""
    IN  gen \in {"suspended", "exhausted", "raised", "closed"} =>
            /\ (~supplied /\ embedded) => (gen # "raised" /\ gcrs = raster.crs.str)
            /\ supplied =>
                  /\ gen # "raised"
                  /\ gcrs = input_crs.val
                  /\ \A i \in 1..Len(yielded) :
                        JsonLoads(yielded[i].attrs)["crs"] = input_crs.val
            /\ (gen = "raised" /\ result = "ValueError") <=> (~supplied /\ ~embedded)

\* C8 (as claimed): the handle is open only while the sequence is being
\* consumed, and no run of rasterio_to_bigquery ends with it open.
C8_HandleReleased ==
    /\ handle = "open" => gen = "suspended"
    /\ pc \in {"done", "raised"} => handle # "open"

Running == {i \in 1..Len(jobs) : jobs[i] = "running"}

\* C9 (as claimed): a load has completed (or the call raised) before the next
\* record is pulled and before the next upload begins, two loads are never
\* in flight, and after a raising upload nothing more is uploaded and the
\* run does not return success.
C9_SequentialUploads ==
    /\ Cardinality(Running) <= 1
    /\ (Pulling \/ Uploading) => Running = {}
    /\ result = "UploadError" => (pc = "raised" /\ Len(calls) = Len(jobs) + 1)
    /\ result = "True" => Len(calls) = Len(jobs)

Encoded == cpc \in {"encoded", "reprojecting", "reprojected", "decoded"}

PayloadKey(record) == CHOOSE key \in DOMAIN record.dynamic : TRUE

\* C2: decoding, without a field name, the record that encoding returned
\* finds the payload through attrs.value_field and gives back an array of
\* shape (block_height, block_width) equal to the block, element by element.
C2_RoundTrip ==
    cpc = "decoded" =>
        /\ JsonLoads(heap[rec].attrs)["value_field"] \in DOMAIN heap[rec].dynamic
        /\ dec.kind = "ok"
        /\ ArrShape(dec.arr) = <<heap[rec].block_height, heap[rec].block_width>>
        /\ dec.arr.dtype = cin.arr.dtype
        /\ \A i \in 1..Len(cin.arr.rows) : \A j \in 1..Len(cin.arr.rows[1]) :
              dec.arr.rows[i][j] = cin.arr.rows[i][j]
        /\ dec.arr = cin.arr

C2_Witness ==
    /\ cpc = "decoded" /\ dec.kind = "ok"
    /\ cin.arr.dtype = S_int16 /\ ArrShape(cin.arr) = <<2, 3>>
    /\ cin.arr.rows[1][2] = -2 /\ cin.arr.rows[2][1] = 0
    /\ cin.value_field = S_band_1 /\ cin.geotransform = Rotated
    /\ dec.arr = cin.arr

\* C3 (as claimed): attrs.value_field is the payload key without its dtype
\* suffix, i.e. the base field name; the suffix is the last
\* underscore-delimited token of the key and equals attrs.dtype.
C3_Original ==
    Encoded =>
        LET a == JsonLoads(heap[rec].attrs)
            key == PayloadKey(heap[rec])
        IN  /\ a["value_field"] = cin.value_field
            /\ key = a["value_field"] \o Underscore \o a["dtype"]
            /\ SplitLast(key, Underscore) = a["dtype"]

\* C3 (amended): attrs.value_field is the payload key itself, dtype suffix
\* included; the key is the base field name, an underscore and the dtype
\* name; the suffix is the last underscore-delimited token of the key and
\* equals attrs.dtype.
C3_ValueFieldIsKey ==
    Encoded =>
        LET a == JsonLoads(heap[rec].attrs)
            key == PayloadKey(heap[rec])
        IN  /\ DOMAIN heap[rec].dynamic = {key}
            /\ a["value_field"] = key
            /\ key = cin.value_field \o Underscore \o a["dtype"]
            /\ SplitLast(key, Underscore) = a["dtype"]
            /\ a["dtype"] = cin.arr.dtype

C3_Witness ==
    /\ cpc = "encoded"
    /\ cin.value_field = S_band_1 /\ cin.arr.dtype = S_int16
    /\ JsonLoads(heap[rec].attrs)["value_field"] =
          <<"b", "a", "n", "d", "_", "1", "_", "i", "n", "t", "1", "6">>

\* C4: reproject_record returns the object it was given; only the eight
\* corner fields may differ from their values at entry; no key is added or
\* removed; each corner is transformed exactly once.
C4_ReprojectIsolation ==
    (cpc \in {"reprojecting", "reprojected"} \/ (cpc = "decoded" /\ ret # 0)) =>
        /\ Len(heap) = 1
        /\ DOMAIN heap[rec] = DOMAIN before
        /\ DOMAIN heap[rec].dynamic = DOMAIN before.dynamic
        /\ \A f \in DOMAIN before \ CornerFields : heap[rec][f] = before[f]
        /\ JsonLoads(heap[rec].attrs)["crs"] = cin.crs
        /\ \A key \in DOMAIN ncalls : ncalls[key] <= 1
        /\ cpc # "reprojecting" =>
              /\ ret = rec
              /\ \A key \in DOMAIN ncalls : ncalls[key] = 1
              /\ \A c \in {"NW", "NE", "SE", "SW"} :
                    LET lon == IF c = "NW" THEN "lon_NW" ELSE IF c = "NE" THEN "lon_NE"
                               ELSE IF c = "SE" THEN "lon_SE" ELSE "lon_SW"
                        lat == IF c = "NW" THEN "lat_NW" ELSE IF c = "NE" THEN "lat_NE"
                               ELSE IF c = "SE" THEN "lat_SE" ELSE "lat_SW"
                    IN  <<heap[rec][lon], heap[rec][lat]>> =
                            TransformerTransform(CRSFromString(rsrc), "EPSG:4326",
                                                 before[lon], before[lat])

C4_Witness ==
    /\ cpc = "reprojected" /\ ret = rec /\ rsrc = "EPSG:3857"
    /\ heap[rec].lon_SW # before.lon_SW /\ heap[rec].lat_SE # before.lat_SE
    /\ heap[rec].dynamic = before.dynamic

\* C7: the corners of the encoded record are the transform applied to
\* (c, r), (c+w, r), (c+w, r+h), (c, r+h) for NW, NE, SE, SW, with
\* block_height = h and block_width = w; identity, offsets (0, 0) and a 2x3
\* block give (0,0), (3,0), (3,2), (0,2).
C7_CornerGeometry ==
    (cpc \in {"encoded", "decoded"} /\ ret = 0) =>
        LET t == cin.geotransform
            r == cin.row_off
            c == cin.col_off
            h == Len(cin.arr.rows)
            w == Len(cin.arr.rows[1])
            R == heap[rec]
        IN  /\ R.block_height = h /\ R.block_width = w
            /\ <<R.lon_NW, R.lat_NW>> = AffineMul(t, c, r)
            /\ <<R.lon_NE, R.lat_NE>> = AffineMul(t, c + w, r)
            /\ <<R.lon_SE, R.lat_SE>> = AffineMul(t, c + w, r + h)
            /\ <<R.lon_SW, R.lat_SW>> = AffineMul(t, c, r + h)
            /\ (t = Identity /\ r = 0 /\ c = 0 /\ h = 2 /\ w = 3) =>
                  /\ <<R.lon_NW, R.lat_NW>> = <<0, 0>>
                  /\ <<R.lon_NE, R.lat_NE>> = <<3, 0>>
                  /\ <<R.lon_SE, R.lat_SE>> = <<3, 2>>
                  /\ <<R.lon_SW, R.lat_SW>> = <<0, 2>>

C7_Witness ==
    /\ cpc = "encoded"
    /\ cin.geotransform = Identity /\ cin.row_off = 0 /\ cin.col_off = 0
    /\ cin.arr = Block(S_uint8, 2, 3, 0) /\ cin.value_field = S_band_1
    /\ <<heap[rec].lon_SE, heap[rec].lat_SE>> = <<3, 2>>
    /\ heap[rec].dynamic =
          (<<"b", "a", "n", "d", "_", "1", "_", "u", "i", "n", "t", "8">>
              :> <<0, 0, 0, 0, 0, 0>>)

(***************************************************************************)
(* Properties of the decode run (SpecDecode).                              *)
(***************************************************************************)
\* C6: decoding a record whose payload length is no multiple of
\* block_height * block_width * itemsize fails with the shape-mismatch kind
\* (numpy's ValueError), which is not the kind raised for an unparseable
\* dtype token (TypeError), and returns no array.
C6_ShapeMismatch ==
    dpc = "done" =>
        LET vf == IF dvf.some THEN dvf.val ELSE JsonLoads(drec.attrs)["value_field"]
            tok == SplitLast(vf, Underscore)
            cells == drec.block_height * drec.block_width
        IN  /\ tok \notin DtypeNames => dout.kind = "TypeError"
            /\ (/\ tok \in DtypeNames
                /\ vf \in DOMAIN drec.dynamic
                /\ Len(drec.dynamic[vf]) % (cells * ItemSize(tok)) # 0) =>
                   /\ dout.kind = "ValueError"
                   /\ dout.kind # "TypeError"
                   /\ dout.arr = <<>>

C6_Witness ==
    /\ dpc = "done" /\ dvf = None
    /\ drec.block_height = 2 /\ drec.block_width = 2
    /\ JsonLoads(drec.attrs)["value_field"] = DynamicKey(S_band_1, S_int16)
    /\ Len(drec.dynamic[DynamicKey(S_band_1, S_int16)]) = 3
    /\ dout.kind = "ValueError"

====
